---- MODULE Spec2Model ----
(***************************************************************************)
(* Multi-provider fusion and reconciliation engine of the hybrid blueprint *)
(* parser (backend/hybrid).  Confidences, weights and boosts are real      *)
(* numbers in the source; here they are integers in hundredths, so a       *)
(* score is weight * confidence in ten-thousandths.                        *)
(***************************************************************************)
EXTENDS Integers, Sequences, FiniteSets, TLC

VARIABLES
    \* reconcile.py, fusion
    candidates,     \* the caller's list of candidate dicts
    cfg_boost,      \* cfg["fusion_rules"]["agreement_boost"]
    cfg_weights,    \* the shape of cfg["fusion_rules"]["provider_weights"]
    fused,          \* return value of the latest fuse_entities call
    lastOp,         \* which reconcile.py operation ran last on the list
    conflicts,      \* return value of the latest detect_conflicts call
    \* reconcile.py, find_hotspots (one call, statement by statement)
    hot_cands,              \* argument candidates
    hot_max,                \* cfg["hotspot"]["max_regions_per_page"], NoKey if absent
    hot_i,                  \* position of the loop "for c in candidates"
    need_textract, need_donut, need_layoutlm,
    regions_for_textract, regions_for_donut, regions_for_layoutlm,
    hot_result,             \* the returned dict, or NotReturned
    \* adjudicator.py and pipeline_V2/adjudicators
    USE_ADJUDICATOR,        \* module flag read from the environment
    adj_conflict,           \* conflict["candidates"]
    adj_schema_keys,        \* argument schema_keys
    adj_reply,              \* what the language-model call of the latest call did
    adj_result,             \* outcome of the latest adjudicate_conflict call
    v2_input,               \* number of provider results given to a V2 adjudicator
    v2_result,              \* outcome of the latest V2 adjudicate call
    \* pipeline._merge_counts applied to count dicts
    cnt_a, cnt_b, cnt_c,    \* three count dicts
    cnt_out,                \* the merges computed from them
    \* one pipeline run: pipeline.run_hybrid_on_image, ensemble.process_image,
    \* pipeline_V2.run_blueprint_pipeline_v2
    entry,                  \* the entry point that was called
    cfg_file,               \* the configuration file: "ok", "missing", "malformed"
    input_ok,               \* the document exists and can be decoded
    USE_OPENAI,             \* pipeline.USE_OPENAI
    pc,                     \* the stage the run is about to execute
    status,                 \* "running", "Done" or "Failed"
    failure,                \* whose exception left the entry point
    failed_providers,       \* providers whose call raised or timed out
    reducto_candidates,     \* entity types of the Reducto candidates
    d_out, l_out, t_out,    \* Donut, LayoutLM and Textract counts
    reconciled, merged,     \* run_hybrid_on_image locals
    validated,              \* what the OpenAI validator step did
    final,                  \* the returned counts
    adjudicator_called,     \* the run called the adjudicator language model
    \* pipeline_V2/providers: one parse_region call
    prov_call,              \* provider, region and what its inner calls do
    prov_result,            \* outcome of the call
    \* utils/logging_ndjson.py: the two log files of a document
    tel_calls,              \* log_entity and log_summary calls made so far
    entities_log,           \* lines of <doc_id>.entities.ndjson
    summary_log,            \* lines of <doc_id>.summary.ndjson
    tel_last                \* outcome of the latest call

fuseVars == <<candidates, cfg_boost, cfg_weights, fused, lastOp, conflicts>>

hotVars == <<hot_cands, hot_max, hot_i, need_textract, need_donut, need_layoutlm,
             regions_for_textract, regions_for_donut, regions_for_layoutlm,
             hot_result>>

adjVars == <<USE_ADJUDICATOR, adj_conflict, adj_schema_keys, adj_reply, adj_result,
             v2_input, v2_result>>

cntVars == <<cnt_a, cnt_b, cnt_c, cnt_out>>

pipeVars == <<entry, cfg_file, input_ok, USE_OPENAI, pc, status, failure, failed_providers,
              reducto_candidates, d_out, l_out, t_out, reconciled, merged,
              validated, final, adjudicator_called>>

provVars == <<prov_call, prov_result>>

telVars == <<tel_calls, entities_log, summary_log, tel_last>>

vars == <<fuseVars, hotVars, adjVars, cntVars, pipeVars, provVars, telVars>>

----------------------------------------------------------------------------
(* Bounds *)

MaxCands == 3

MaxHotCands == 3

MaxAdjCands == 2

MaxCount == 2

MaxReducto == 3

MaxLogCalls == 3

----------------------------------------------------------------------------
(* Python values of a field: None, "", 0 and two non-empty values *)

None == "None"
EmptyStr == ""
Zero == "0"

NoKey == -1     \* a dict key that is absent (numeric keys)

field_names == <<"side", "process", "symbol", "size", "size_unit",
                 "length", "pitch", "contour", "finish", "tail">>

FieldKeys == {field_names[i] : i \in 1..Len(field_names)} \cup {"value"}

NoFields == [k \in FieldKeys |-> None]

----------------------------------------------------------------------------
(* Configuration: the built-in defaults of pipeline._load_cfg *)

provider_weights ==
    [TABLE     |-> [reducto |-> 60, layoutlmv3 |-> 25, donut |-> 10, textract |-> 5],
     DIMENSION |-> [reducto |-> 55, donut |-> 30, layoutlmv3 |-> 10, textract |-> 5],
     WELD      |-> [layoutlmv3 |-> 60, reducto |-> 30, donut |-> 7, textract |-> 3]]

prefer_grid_from == "reducto"

\* How the weight configuration in use differs from provider_weights:
\*   "default"           it is provider_weights
\*   "no_fusion_rules"   cfg has no "fusion_rules" key
\*   "no_entry"          provider_weights has no key for entity_type
\*   "entry_not_map"     provider_weights[entity_type] is a number
\*   "weight_not_number" provider_weights[entity_type][provider] is a string
WeightCfg(kind, entity_type, provider) ==
    [kind |-> kind, entity_type |-> entity_type, provider |-> provider]

WellFormed == WeightCfg("default", "None", "None")

WeightCfgs ==
    { WellFormed,
      WeightCfg("no_fusion_rules", "None", "None"),
      WeightCfg("no_entry", "DIMENSION", "None"),
      WeightCfg("entry_not_map", "DIMENSION", "None"),
      WeightCfg("weight_not_number", "DIMENSION", "reducto") }

\* cfg.get("fusion_rules", {}).get("provider_weights", {}).get(entity_type, {}).get(provider, 0.0)
weight_for(provider, entity_type) ==
    IF cfg_weights.kind = "no_fusion_rules" THEN 0
    ELSE IF cfg_weights.kind = "no_entry" /\ entity_type = cfg_weights.entity_type THEN 0
    ELSE IF entity_type \in DOMAIN provider_weights
            /\ provider \in DOMAIN provider_weights[entity_type]
    THEN provider_weights[entity_type][provider]
    ELSE 0

\* the chained .get raises AttributeError when the entry of the entity type
\* is not a dict
weight_for_raises(provider, entity_type) ==
    cfg_weights.kind = "entry_not_map" /\ entity_type = cfg_weights.entity_type

----------------------------------------------------------------------------
(* Dict accessors *)

\* c.get("confidence", 0.0)
Conf(c) == IF c.confidence = NoKey THEN 0 ELSE c.confidence

\* c.get("confidence_calibrated", c.get("confidence", 0.0))
CalibratedOrRaw(c) ==
    IF c.confidence_calibrated = NoKey THEN Conf(c) ELSE c.confidence_calibrated

\* c.get("confidence_calibrated", 0)
CalibratedOrZero(c) ==
    IF c.confidence_calibrated = NoKey THEN 0 ELSE c.confidence_calibrated

Min(a, b) == IF a < b THEN a ELSE b
Max(a, b) == IF a > b THEN a ELSE b

\* indices of the candidates of one entity type, in list order
IdxOfType(cands, etype) ==
    SelectSeq([i \in 1..Len(cands) |-> i], LAMBDA i : cands[i].entity_type = etype)

SeqToSet(s) == {s[i] : i \in 1..Len(s)}

\* keys of by_type in insertion order: entity types by first appearance
RECURSIVE TypesInOrderFrom(_, _, _)
TypesInOrderFrom(cands, i, acc) ==
    IF i > Len(cands) THEN acc
    ELSE TypesInOrderFrom(cands, i + 1,
            IF cands[i].entity_type \in SeqToSet(acc) THEN acc
            ELSE Append(acc, cands[i].entity_type))

TypesInOrder(cands) == TypesInOrderFrom(cands, 1, <<>>)

----------------------------------------------------------------------------
(* calibrate_confidences: identity calibration *)

calibrate_confidences(cands) ==
    [i \in 1..Len(cands) |->
        [cands[i] EXCEPT !.confidence_calibrated = Conf(cands[i])]]

----------------------------------------------------------------------------
(* _boost_if_agreement *)

\* one group for all DIMENSION candidates, whatever their value
ValueGroupAll(cands, idx, i) == SeqToSet(idx)

\* members of the DIMENSION value group of candidate i (values dict, key v)
ValueGroup(cands, idx, i) ==
    {j \in SeqToSet(idx) : cands[j].fields["value"] = cands[i].fields["value"]}

BoostedNoClamp(c, boost) == CalibratedOrRaw(c) + boost

Boosted(c, boost) == Min(100, CalibratedOrRaw(c) + boost)

boost_if_agreement(cands, etype, boost) ==
    LET idx == IdxOfType(cands, etype) IN
    IF Len(idx) = 0 \/ boost <= 0 THEN cands
    ELSE IF etype = "DIMENSION" THEN
        [i \in 1..Len(cands) |->
            IF cands[i].entity_type = etype
               /\ cands[i].fields["value"] # None
               /\ Cardinality(ValueGroup(cands, idx, i)) >= 2
            THEN [cands[i] EXCEPT
                    !.confidence_calibrated = Boosted(cands[i], boost),
                    !.agreement_partners =
                        {cands[j].provider : j \in ValueGroup(cands, idx, i) \ {i}}]
            ELSE cands[i]]
    ELSE IF etype = "TABLE" THEN
        [i \in 1..Len(cands) |->
            IF cands[i].entity_type = etype
            THEN [cands[i] EXCEPT
                    !.confidence_calibrated = Boosted(cands[i], boost \div 2)]
            ELSE cands[i]]
    ELSE cands

----------------------------------------------------------------------------
(* fuse_entities: winner selection *)

Score(c, etype) == weight_for(c.provider, etype) * CalibratedOrRaw(c)

\* "w = _weight_for(...)" raises, or "w * c.get(...)" raises TypeError on a
\* weight that is not a number
ScoreRaises(c, etype) ==
    \/ weight_for_raises(c.provider, etype)
    \/ /\ cfg_weights.kind = "weight_not_number"
       /\ etype = cfg_weights.entity_type
       /\ c.provider = cfg_weights.provider

\* "if score > best_score": a later candidate replaces the best only when
\* strictly better
BetterLast(score, best_score) == score >= best_score

Better(score, best_score) == score > best_score

\* the selection loop; best = 0 stands for None, best_score starts at -1.0
RECURSIVE PickBest(_, _, _, _, _)
PickBest(cands, etype, idx, best, best_score) ==
    IF Len(idx) = 0 THEN best
    ELSE LET c == cands[Head(idx)]
             score == Score(c, etype)
         IN IF Better(score, best_score)
            THEN PickBest(cands, etype, Tail(idx), Head(idx), score)
            ELSE PickBest(cands, etype, Tail(idx), best, best_score)

\* a selection that starts from best_score 0
BestIndexFromZero(cands, etype) ==
    PickBest(cands, etype, IdxOfType(cands, etype), 0, 0)

BestIndex(cands, etype) ==
    PickBest(cands, etype, IdxOfType(cands, etype), 0, -10000)

----------------------------------------------------------------------------
(* fuse_entities: backfill of WELD fields *)

\* fields.get(k) in [None, "", 0]
IsMissing(v) == v \in {None, EmptyStr, Zero}

\* f2.get(k) not in [None, ""]
HasValue(v) == v \notin {None, EmptyStr}

\* c.get("confidence_calibrated", 0) >= fused_ent.get("confidence_calibrated", 0)
DonorEligibleStrict(c, fused_ent) ==
    CalibratedOrZero(c) > CalibratedOrZero(fused_ent)

DonorEligible(c, fused_ent) ==
    CalibratedOrZero(c) >= CalibratedOrZero(fused_ent)

Copies(ent, c, k) ==
    /\ k \in SeqToSet(field_names)
    /\ IsMissing(ent.fields[k])
    /\ HasValue(c.fields[k])
    /\ DonorEligible(c, ent)

\* one pass of the inner loop "for k in field_names" for one candidate c;
\* the deep copy is never identical to a candidate, so no c is skipped
BackfillFrom(ent, c) ==
    [ent EXCEPT
        !.fields = [k \in FieldKeys |->
                      IF Copies(ent, c, k) THEN c.fields[k] ELSE ent.fields[k]],
        !.reason = IF \E k \in FieldKeys : Copies(ent, c, k)
                   THEN "field_backfill" ELSE ent.reason]

RECURSIVE Backfill(_, _, _)
Backfill(ent, cands, idx) ==
    IF Len(idx) = 0 THEN ent
    ELSE Backfill(BackfillFrom(ent, cands[Head(idx)]), cands, Tail(idx))

----------------------------------------------------------------------------
(* fuse_entities: the fused entity of one entity type *)

\* copy.deepcopy(best) with _accepted and _reason set
Clone(c) ==
    [id |-> c.id, entity_type |-> c.entity_type, page |-> c.page,
     bbox |-> c.bbox, provider |-> c.provider,
     confidence |-> c.confidence,
     confidence_calibrated |-> c.confidence_calibrated,
     low_confidence |-> c.low_confidence,
     fields |-> c.fields, agreement_partners |-> c.agreement_partners,
     accepted |-> TRUE, reason |-> "owner_default"]

FuseType(cands, etype) ==
    LET b == BestIndex(cands, etype)
        fused_ent == Clone(cands[b])
    IN  IF etype = "TABLE" THEN
            IF fused_ent.provider # prefer_grid_from
            THEN [fused_ent EXCEPT !.reason = "highest_weighted"]
            ELSE fused_ent
        ELSE IF etype = "WELD" THEN
            Backfill(fused_ent, cands, IdxOfType(cands, etype))
        ELSE IF etype = "DIMENSION" THEN
            \* fused_ent.get("_reason") or "highest_weighted"
            [fused_ent EXCEPT !.reason =
                IF fused_ent.reason = "" THEN "highest_weighted" ELSE fused_ent.reason]
        ELSE fused_ent

\* the candidate list after every per-type boost of one call
RECURSIVE BoostAll(_, _, _)
BoostAll(cands, types, boost) ==
    IF Len(types) = 0 THEN cands
    ELSE BoostAll(boost_if_agreement(cands, Head(types), boost), Tail(types), boost)

\* "for etype, cands in by_type.items()": one fused entity per type, a type
\* whose best is None is skipped
RECURSIVE FuseAll(_, _, _)
FuseAll(cands, types, acc) ==
    IF Len(types) = 0 THEN acc
    ELSE FuseAll(cands, Tail(types),
            IF BestIndex(cands, Head(types)) = 0 THEN acc
            ELSE Append(acc, FuseType(cands, Head(types))))

\* the entity types whose selection loop raises, in the order of the loop
RaisingTypes(cands, types) ==
    SelectSeq(types, LAMBDA t :
        \E i \in SeqToSet(IdxOfType(cands, t)) : ScoreRaises(cands[i], t))

\* the position of t in types
RECURSIVE PositionOf(_, _)
PositionOf(t, types) ==
    IF Head(types) = t THEN 1 ELSE 1 + PositionOf(t, Tail(types))

\* a fusion that edits the winning candidate itself: "fused_ent = best"
\* without the deep copy, so the backfilled fields land in the input list
fuse_entities_aliased(cands, boost) ==
    LET types == TypesInOrder(cands)
        after == BoostAll(cands, types, boost)
        out == FuseAll(after, types, <<>>)
    IN  [raised |-> FALSE,
         cands |-> [i \in 1..Len(after) |->
                      IF \E t \in 1..Len(out) : out[t].id = i
                      THEN [after[i] EXCEPT !.fields =
                              out[CHOOSE t \in 1..Len(out) : out[t].id = i].fields]
                      ELSE after[i]],
         fused |-> out]

\* an exception of the selection loop leaves fuse_entities after the boosts
\* of the types up to the raising one were written into the input list
fuse_entities(cands, boost) ==
    LET types == TypesInOrder(cands)
        after == BoostAll(cands, types, boost)
        bad == RaisingTypes(cands, types)
    IN  IF bad = <<>>
        THEN [raised |-> FALSE, cands |-> after,
              fused |-> FuseAll(after, types, <<>>)]
        ELSE [raised |-> TRUE,
              cands |-> BoostAll(cands,
                            SubSeq(types, 1, PositionOf(Head(bad), types)), boost),
              fused |-> <<>>]

\* detect_conflicts(fused): a placeholder that reports no conflict
detect_conflicts(f) == <<>>

----------------------------------------------------------------------------
(* find_hotspots *)

\* cfg.get("hotspot", {}).get("low_conf_threshold", 0.75), default configuration
low_conf_threshold == 75

\* cfg.get("hotspot", {}).get("max_regions_per_page", 999)
DefaultMaxRegions == 999

max_regions_per_page(m) == IF m = NoKey THEN DefaultMaxRegions ELSE m

DefaultBBox == "0,0,0,0"

\* {"page": c.get("page", 0), "bbox": c.get("bbox") or [0,0,0,0]}
RegionOf(c) ==
    [page |-> c.page, bbox |-> IF c.bbox = None THEN DefaultBBox ELSE c.bbox]

\* c.get("confidence", 0.0) < th
BelowThresholdOrEqual(c) == Conf(c) <= low_conf_threshold

BelowThreshold(c) == Conf(c) < low_conf_threshold

\* a cut that keeps the last n regions
TakeLast(s, n) == SubSeq(s, Len(s) - Min(n, Len(s)) + 1, Len(s))

\* regions[: n] for n >= 0
Take(s, n) == SubSeq(s, 1, Min(n, Len(s)))

NotReturned == [returned |-> FALSE]

\* "low_confidence": confidence < 0.4 of adapters._make_candidate
adapter_low_confidence == 40

low_confidence(confidence) == confidence < adapter_low_confidence

\* a candidate as _make_candidate builds it, by the keys find_hotspots reads
\* and its low_confidence mark
HotCand(entity_type, confidence, page, bbox) ==
    [entity_type |-> entity_type, confidence |-> confidence,
     page |-> page, bbox |-> bbox,
     low_confidence |-> low_confidence(confidence)]

HotCandSet ==
    { HotCand(t, 30, 0, None) : t \in {"TABLE", "DIMENSION", "WELD", "NOTE", "SECTION"} }
    \cup { HotCand(t, 30, 1, "b1") : t \in {"TABLE", "DIMENSION", "WELD", "NOTE"} }
    \cup { HotCand(t, 75, 0, "b2") : t \in {"TABLE", "WELD"} }
    \cup { HotCand("DIMENSION", 90, 1, "b3"), HotCand("DIMENSION", 50, 1, "b3") }

----------------------------------------------------------------------------
(* adjudicator.adjudicate_conflict *)

\* a Python dict is a function from its keys
EmptyDict == [k \in {} |-> None]

\* d.get(k)
DictGet(d, k) == IF k \in DOMAIN d THEN d[k] ELSE None

\* c.get("fields", {})
FieldsOf(c) == IF c.has_fields THEN c.fields ELSE EmptyDict

Returned(v) == [status |-> "returned", value |-> v]
Raised(e) == [status |-> "raised", value |-> e]
NotCalled == [status |-> "none", value |-> "none"]

\* max(seq, key=...) keeps the first of several maximal elements
KeepsLater(key, best_key) == key >= best_key

Keeps(key, best_key) == key > best_key

RECURSIVE PyMaxFrom(_, _, _)
PyMaxFrom(cands, i, best) ==
    IF i > Len(cands) THEN best
    ELSE IF Keeps(Conf(cands[i]), Conf(cands[best]))
         THEN PyMaxFrom(cands, i + 1, i)
         ELSE PyMaxFrom(cands, i + 1, best)

\* max(conflict["candidates"], key=lambda c: c.get("confidence", 0.0)).get("fields", {})
\* max() of an empty list raises ValueError
HighestConfidenceFields(cands) ==
    IF Len(cands) = 0 THEN Raised("ValueError")
    ELSE Returned(FieldsOf(cands[PyMaxFrom(cands, 2, 1)]))

\* what the chat completion call can do
Replies ==
    { [kind |-> "service_error", data |-> EmptyDict],     \* create() raises
      [kind |-> "no_content", data |-> EmptyDict],        \* message.content is None
      [kind |-> "invalid_json", data |-> EmptyDict],      \* json.loads raises
      [kind |-> "json_not_object", data |-> EmptyDict],   \* a JSON list, string, null
      [kind |-> "json_object", data |-> ("value" :> "9" @@ "unit" :> "mm")],
      [kind |-> "json_object", data |-> ("value" :> "9")],
      [kind |-> "json_object", data |-> ("value" :> "9" @@ "unit" :> "mm" @@ "extra" :> "x")] }

NoReply == [kind |-> "none", data |-> EmptyDict]

adjudicate_conflict(cands, schema_keys, use_adjudicator, reply) ==
    IF ~use_adjudicator THEN HighestConfidenceFields(cands)
    ELSE IF reply.kind = "service_error" THEN Raised("APIError")
    ELSE IF reply.kind = "no_content" THEN Raised("AttributeError")
    ELSE IF reply.kind \in {"invalid_json", "json_not_object"}
         THEN HighestConfidenceFields(cands)
    ELSE Returned([k \in SeqToSet(schema_keys) |-> DictGet(reply.data, k)])

----------------------------------------------------------------------------
(* pipeline_V2/adjudicators: base._call_adj_model and the per-entity adjudicate *)

V2Replies ==
    {"no_api_key", "service_error", "no_output", "invalid_json", "json_not_object",
     "json_object"}

\* raises RuntimeError without a key or without output, lets the client's and
\* json.loads' exceptions through
call_adj_model(reply) ==
    CASE reply = "no_api_key"    -> Raised("RuntimeError")
      [] reply = "service_error" -> Raised("APIError")
      [] reply = "no_output"     -> Raised("RuntimeError")
      [] reply = "invalid_json"  -> Raised("JSONDecodeError")
      [] OTHER                   -> Returned(reply)

\* the request reaches the service: "if not provider_results: return []" is
\* the only guard in front of _call_adj_model, which sends the request unless
\* the API key is missing
v2_calls_model(n_results, reply) == n_results > 0 /\ reply # "no_api_key"

\* bom/welds/dimensions/metadata adjudicate(provider_results): no call for an
\* empty list, else the model's answer is read with result.get(...)
v2_adjudicate(n_results, reply) ==
    IF n_results = 0 THEN Returned("empty")
    ELSE LET result == call_adj_model(reply) IN
         IF result.status = "raised" THEN result
         ELSE IF result.value = "json_not_object" THEN Raised("AttributeError")
         ELSE Returned("adjudicated")

\* candidates of a conflict
ConflictCands ==
    { [confidence |-> c, has_fields |-> TRUE, fields |-> f] :
        c \in {NoKey, 50, 90},
        f \in { ("value" :> "1"), ("value" :> "2" @@ "unit" :> "in"),
                ("value" :> "3" @@ "note" :> "n") } }
    \cup { [confidence |-> 50, has_fields |-> FALSE, fields |-> EmptyDict] }

----------------------------------------------------------------------------
(* pipeline._merge_counts and pipeline._counts_from_reducto_candidates *)

PresentKey == "weld_symbols_present"

CountKeys == {"weld_symbols_count", "dim_values_count", "bom_tag_count",
              "bom_material_count", "bom_qty_count"}

SchemaKeys == {PresentKey} \cup CountKeys

\* d.get(k, default)
GetOr(d, k, default) == IF k \in DOMAIN d THEN d[k] ELSE default

Counts(present, welds, dims, tags, materials, qty) ==
    [k \in SchemaKeys |->
        CASE k = PresentKey -> present
          [] k = "weld_symbols_count" -> welds
          [] k = "dim_values_count" -> dims
          [] k = "bom_tag_count" -> tags
          [] k = "bom_material_count" -> materials
          [] k = "bom_qty_count" -> qty]

\* a flag taken from the base dict alone
MergedFlagBase(base_counts, override_counts) ==
    GetOr(base_counts, PresentKey, FALSE)

\* bool(base.get(flag, False) or override.get(flag, False))
MergedFlag(base_counts, override_counts) ==
    GetOr(base_counts, PresentKey, FALSE) \/ GetOr(override_counts, PresentKey, FALSE)

\* a count that adds the two instead of taking the larger
MergedCountSum(base_counts, override_counts, k) ==
    GetOr(base_counts, k, 0) + GetOr(override_counts, k, 0)

\* max(int(base.get(k, 0)), int(override.get(k, 0))); int() is the identity
\* on the integers modelled here
MergedCount(base_counts, override_counts, k) ==
    Max(GetOr(base_counts, k, 0), GetOr(override_counts, k, 0))

\* out = dict(base_counts), then the flag and the five counts are overwritten
merge_counts(base_counts, override_counts) ==
    [k \in DOMAIN base_counts \cup SchemaKeys |->
        IF k = PresentKey THEN MergedFlag(base_counts, override_counts)
        ELSE IF k \in CountKeys THEN MergedCount(base_counts, override_counts, k)
        ELSE base_counts[k]]

\* Reducto-derived counts whose flag is never set
counts_from_reducto_noflag(cands) ==
    LET welds == Len(SelectSeq(cands, LAMBDA et : et = "WELD"))
        dims  == Len(SelectSeq(cands, LAMBDA et : et = "DIMENSION"))
    IN  Counts(FALSE, welds, dims, 0, 0, 0)

\* welds and dims counted from the Reducto candidates, BOM counts left at 0
counts_from_reducto_candidates(cands) ==
    LET welds == Len(SelectSeq(cands, LAMBDA et : et = "WELD"))
        dims  == Len(SelectSeq(cands, LAMBDA et : et = "DIMENSION"))
    IN  Counts(welds > 0, welds, dims, 0, 0, 0)

----------------------------------------------------------------------------
(* reconcile_counts: imported by pipeline.py from reconcile.py, which does not
   define it; modelled from the design's scalar reconciler *)

CountCap == 2

\* clip to [0, cap]
clip(v, cap) == Max(0, Min(v, cap))

RECURSIVE ReconcileFrom(_, _)
ReconcileFrom(sources, acc) ==
    IF Len(sources) = 0 THEN acc
    ELSE LET src == Head(sources) IN
         ReconcileFrom(Tail(sources),
            [k \in SchemaKeys |->
                IF k = PresentKey THEN acc[k] \/ GetOr(src, k, FALSE)
                ELSE Max(acc[k], clip(GetOr(src, k, 0), CountCap))])

\* OR of the flags, MAX of the clipped counts, then the consistency fixup
reconcile_counts(d, l, t) ==
    LET sources == <<IF d.has_json THEN d.json ELSE EmptyDict, l, t>>
        acc == ReconcileFrom(sources, Counts(FALSE, 0, 0, 0, 0, 0))
    IN  [acc EXCEPT ![PresentKey] = acc[PresentKey] \/ acc["weld_symbols_count"] > 0]

----------------------------------------------------------------------------
(* Pipeline runs: which provider exceptions leave each entry point *)

\* how a provider call can end: normally, with an exception or timeout of the
\* call itself, or with an exception while its client or model is set up
ProviderOutcomes == {"ok", "error", "setup_error"}

\* run_hybrid_on_image: Reducto sits in try/except; DonutRunner() and
\* predict_counts are called bare; predict_counts_with_layoutlm returns
\* defaults on every failure; predict_counts_with_textract catches the API
\* call but not boto3.client()
hybrid_escapes(provider, outcome) ==
    CASE provider = "reducto"  -> FALSE
      [] provider = "donut"    -> outcome # "ok"
      [] provider = "layoutlm" -> FALSE
      [] provider = "textract" -> outcome = "setup_error"
      [] OTHER -> FALSE

\* process_image: each of the four provider calls sits in try/except
process_image_escapes(provider, outcome) == FALSE

\* run_blueprint_pipeline_v2: first_pass_page is called bare; the reducto,
\* donut and textract parse_region catch; layoutlm_provider calls
\* extract_words outside its try blocks
v2_escapes(provider, outcome) ==
    CASE provider = "o4-mini"  -> outcome # "ok"
      [] provider = "layoutlm" -> outcome = "setup_error"
      [] OTHER -> FALSE

\* counts a LayoutLM or Textract run can report: the flag follows the count
ConsistentCounts ==
    { Counts(w > 0, w, d, 0, 0, 0) : w \in {0, 1, CountCap + 1}, d \in {0, 2} }

ZeroCounts == Counts(FALSE, 0, 0, 0, 0, 0)

\* Donut's parsed JSON: any keys, any values
DonutJsons ==
    { Counts(p, w, 1, 0, 0, 0) : p \in BOOLEAN, w \in {0, 2, CountCap + 1} }
    \cup { ("weld_symbols_count" :> 2), EmptyDict }

NoJson == [has_json |-> FALSE, json |-> EmptyDict]

ReductoLists ==
    UNION { [1..n -> {"WELD", "DIMENSION"}] : n \in 0..MaxReducto }
    \cup { <<"NOTE">>, <<"NOTE", "WELD">> }

\* what the validator step can do when USE_OPENAI is on
ValidatorOutcomes ==
    { [kind |-> "import_error", counts |-> EmptyDict],
      [kind |-> "raises", counts |-> EmptyDict],
      [kind |-> "returns", counts |-> ZeroCounts],
      [kind |-> "returns", counts |-> Counts(FALSE, 1, 0, 0, 0, 0)] }

NotValidated == [kind |-> "off", counts |-> EmptyDict]

\* count dicts: the flag, the weld and dimension counts and three shapes of
\* the BOM counts, plus two dicts with keys missing
CountDicts ==
    { Counts(p, w, d, bom[1], bom[2], bom[3]) :
        p \in BOOLEAN, w \in 0..MaxCount, d \in {0, MaxCount},
        bom \in {<<0, 0, 0>>, <<1, 0, 2>>, <<0, 2, 1>>} }
    \cup { EmptyDict, ("weld_symbols_count" :> MaxCount) }

----------------------------------------------------------------------------
(* Candidate lists handed to reconcile.py *)

\* adapters._make_candidate: a fresh candidate has no confidence_calibrated
\* and no _agreement_partners; the id is set when the list is built
make_candidate(entity_type, provider, confidence, fields) ==
    [id |-> 0, entity_type |-> entity_type, page |-> 0, bbox |-> None,
     provider |-> provider,
     confidence |-> confidence, confidence_calibrated |-> NoKey,
     low_confidence |-> low_confidence(confidence),
     fields |-> fields, agreement_partners |-> {}]

Dim(provider, confidence, value) ==
    make_candidate("DIMENSION", provider, confidence,
                   [NoFields EXCEPT !["value"] = value])

Weld(provider, confidence, size, side) ==
    make_candidate("WELD", provider, confidence,
                   [NoFields EXCEPT !["size"] = size, !["side"] = side])

Table(provider, confidence) ==
    make_candidate("TABLE", provider, confidence, NoFields)

\* lists that are mostly dimensions
DimFamily ==
    { Dim("donut", 90, "a"), Dim("reducto", 60, "a"), Dim("reducto", 60, "b"),
      Dim("layoutlmv3", 40, "a"), Dim("layoutlmv3", 40, None),
      Dim("reducto", 50, "a"), Dim("donut", 70, "b"), Dim("acme", 90, "b"),
      Weld("reducto", 60, "a", None), Table("donut", 60) }

\* lists that are mostly weld symbols
WeldFamily ==
    { Weld("layoutlmv3", 60, None, None), Weld("layoutlmv3", 60, EmptyStr, None),
      Weld("layoutlmv3", 60, Zero, None), Weld("layoutlmv3", 60, "a", None),
      Weld("reducto", 60, "b", None), Weld("reducto", 90, "b", None),
      Weld("reducto", 40, "a", "L"), Weld("reducto", 60, Zero, None),
      Weld("reducto", 60, None, "L"), Dim("reducto", 60, "a") }

\* lists scored under a weight configuration that may be malformed
CfgFamily ==
    { Dim("reducto", 60, "a"), Dim("donut", 70, "a"),
      Weld("layoutlmv3", 60, "a", None), Weld("reducto", 60, "b", None) }

Boosts == {0, 20}

CandLists(family) ==
    UNION { [1..n -> family] : n \in 0..MaxCands }

WithIds(s) == [i \in 1..Len(s) |-> [s[i] EXCEPT !.id = i]]

----------------------------------------------------------------------------
(* pipeline_V2/providers: parse_region of the four region providers *)

ProviderNames == {"textract", "layoutlm", "donut", "reducto"}

RegionTypes == {"bom_table", "weld_cluster", "dimensions", "title_block"}

\* how a call made inside parse_region ends
CallOutcomes == {"ok", "raises"}

\* ProviderResult(provider=..., region=..., ...): the entity lists by their
\* lengths, metadata by its presence, raw by whether it has an "error" key
ProviderResult(provider, bom_rows, welds, dimensions, metadata, raw_error) ==
    [status |-> "returned", provider |-> provider, bom_rows |-> bom_rows,
     welds |-> welds, dimensions |-> dimensions, metadata |-> metadata,
     raw_error |-> raw_error]

\* ProviderResult(provider=NAME, region=region): every list at its default
EmptyResult(provider) == ProviderResult(provider, 0, 0, 0, FALSE, FALSE)

\* an exception leaves parse_region
ProviderRaised(provider) ==
    [status |-> "raised", provider |-> provider, bom_rows |-> 0, welds |-> 0,
     dimensions |-> 0, metadata |-> FALSE, raw_error |-> FALSE]

NoProviderResult ==
    [status |-> "none", provider |-> "none", bom_rows |-> 0, welds |-> 0,
     dimensions |-> 0, metadata |-> FALSE, raw_error |-> FALSE]

\* a call: the provider, the region's type, whether the provider's backend
\* module was imported, how its inner calls end in the order the code makes
\* them, and how many entities a successful inner call finds
Call(provider, region_type, loaded, first, second, third, found) ==
    [provider |-> provider, region_type |-> region_type, loaded |-> loaded,
     first |-> first, second |-> second, third |-> third, found |-> found]

NoCall == Call("none", "none", FALSE, "ok", "ok", "ok", 0)

\* textract_provider.parse_region: first = extract_words, second =
\* analyze_tables_from_image; both sit in try/except and raw holds the words
textract_parse_region(c) ==
    IF ~c.loaded THEN EmptyResult("textract")
    ELSE LET words == IF c.first = "ok" THEN c.found ELSE 0
             rows  == IF c.second = "ok" THEN c.found ELSE 0
         IN  ProviderResult("textract", rows,
                            0,
                            IF c.region_type = "dimensions" THEN words ELSE 0,
                            c.region_type = "title_block" /\ words > 0,
                            FALSE)

\* layoutlm_provider.parse_region: first = extract_words (outside any try),
\* second = LayoutLMv3Adapter(), third = predict_from_ocr when there are tokens
layoutlm_parse_region(c) ==
    IF ~c.loaded THEN EmptyResult("layoutlm")
    ELSE IF c.first = "raises" THEN ProviderRaised("layoutlm")
    ELSE IF c.second = "raises" THEN ProviderResult("layoutlm", 0, 0, 0, FALSE, TRUE)
    ELSE ProviderResult("layoutlm", 0, 0, 0, FALSE,
                        c.found > 0 /\ c.third = "raises")

\* donut_provider.parse_region: first = DonutRunner(...) and predict_counts
donut_parse_region(c) ==
    IF ~c.loaded THEN EmptyResult("donut")
    ELSE IF c.first = "raises" THEN ProviderResult("donut", 0, 0, 0, FALSE, TRUE)
    ELSE ProviderResult("donut", c.found, c.found, 0, FALSE, FALSE)

\* reducto_provider.parse_region: first = reducto_adapter.predict
reducto_parse_region(c) ==
    IF ~c.loaded THEN EmptyResult("reducto")
    ELSE IF c.first = "raises" THEN ProviderResult("reducto", 0, 0, 0, FALSE, TRUE)
    ELSE ProviderResult("reducto", 0, c.found, c.found, FALSE, FALSE)

parse_region(c) ==
    CASE c.provider = "textract" -> textract_parse_region(c)
      [] c.provider = "layoutlm" -> layoutlm_parse_region(c)
      [] c.provider = "donut"    -> donut_parse_region(c)
      [] c.provider = "reducto"  -> reducto_parse_region(c)

----------------------------------------------------------------------------
(* utils/logging_ndjson.py *)

\* how the file operations of one _append_ndjson call end: all succeed,
\* os.makedirs raises, open raises, the write raises with nothing on disk,
\* the write raises after part of the line reached the disk
WriteOutcomes == {"ok", "makedirs_error", "open_error", "write_error", "write_torn"}

\* the row dict a call builds, by the call that built it and its payload
Row(op, payload) == [op |-> op, payload |-> payload]

\* json.dumps(obj, ensure_ascii=False) + "\n"
Line(row) == [kind |-> "record", row |-> row]

\* a proper prefix of a line
Fragment(row) == [kind |-> "fragment", row |-> row]

\* a file opened for writing instead of appending
append_ndjson_truncate(file, row, outcome) ==
    CASE outcome = "ok" -> [file |-> <<Line(row)>>, result |-> Returned(None)]
      [] outcome = "write_torn" ->
            [file |-> <<Fragment(row)>>, result |-> Raised("OSError")]
      [] outcome = "write_error" -> [file |-> <<>>, result |-> Raised("OSError")]
      [] OTHER -> [file |-> file, result |-> Raised("OSError")]

\* _append_ndjson(path, obj): makedirs, open(path, "a"), one write; a file is
\* the sequence of the chunks written to it
append_ndjson(file, row, outcome) ==
    CASE outcome = "ok" -> [file |-> Append(file, Line(row)), result |-> Returned(None)]
      [] outcome = "write_torn" ->
            [file |-> Append(file, Fragment(row)), result |-> Raised("OSError")]
      [] OTHER -> [file |-> file, result |-> Raised("OSError")]

\* what a log_entity or log_summary call is given
Payloads == {1, 2}

----------------------------------------------------------------------------
(* Each specification runs one component; the others stay as constructed *)

IdleFuse ==
    /\ candidates = <<>>
    /\ cfg_boost = 0
    /\ cfg_weights = WellFormed
    /\ fused = <<>>
    /\ lastOp = "none"
    /\ conflicts = <<>>

IdleHot ==
    /\ hot_cands = <<>>
    /\ hot_max = NoKey
    /\ hot_i = 1
    /\ need_textract = FALSE /\ need_donut = FALSE /\ need_layoutlm = FALSE
    /\ regions_for_textract = <<>>
    /\ regions_for_donut = <<>>
    /\ regions_for_layoutlm = <<>>
    /\ hot_result = NotReturned

IdleAdj ==
    /\ USE_ADJUDICATOR = FALSE
    /\ adj_conflict = <<>>
    /\ adj_schema_keys = <<>>
    /\ adj_reply = NoReply
    /\ adj_result = NotCalled
    /\ v2_input = 0
    /\ v2_result = NotCalled

NotMerged == [done |-> FALSE]

IdleCnt ==
    /\ cnt_a = EmptyDict /\ cnt_b = EmptyDict /\ cnt_c = EmptyDict
    /\ cnt_out = NotMerged

IdlePipe ==
    /\ entry = "none"
    /\ cfg_file = "ok"
    /\ input_ok = TRUE
    /\ USE_OPENAI = FALSE
    /\ pc = "none"
    /\ status = "none"
    /\ failure = "none"
    /\ failed_providers = {}
    /\ reducto_candidates = <<>>
    /\ d_out = NoJson
    /\ l_out = EmptyDict /\ t_out = EmptyDict
    /\ reconciled = EmptyDict /\ merged = EmptyDict
    /\ validated = NotValidated
    /\ final = EmptyDict
    /\ adjudicator_called = FALSE

IdleProv ==
    /\ prov_call = NoCall
    /\ prov_result = NoProviderResult

IdleTel ==
    /\ tel_calls = <<>>
    /\ entities_log = <<>>
    /\ summary_log = <<>>
    /\ tel_last = NotCalled

----------------------------------------------------------------------------
(* Fusion: calibrate_confidences and fuse_entities on one candidate list *)

InitFuse ==
    /\ \E family \in {DimFamily, WeldFamily} :
         \E s \in CandLists(family) : candidates = WithIds(s)
    /\ cfg_boost \in Boosts
    /\ cfg_weights = WellFormed
    /\ fused = <<>>
    /\ lastOp = "none"
    /\ conflicts = <<>>
    /\ IdleHot /\ IdleAdj /\ IdleCnt /\ IdlePipe /\ IdleProv /\ IdleTel

\* calibrate_confidences(candidates, calib_cfg)
Calibrate ==
    /\ candidates' = calibrate_confidences(candidates)
    /\ lastOp' = "calibrate"
    /\ UNCHANGED <<cfg_boost, cfg_weights, fused, conflicts>>
    /\ UNCHANGED <<hotVars, adjVars, cntVars, pipeVars, provVars, telVars>>

\* fuse_entities(candidates, cfg): annotates the list in place and returns
\* the fused entities
Fuse ==
    /\ LET r == fuse_entities(candidates, cfg_boost) IN
         /\ candidates' = r.cands
         /\ fused' = IF r.raised THEN fused ELSE r.fused
         /\ lastOp' = IF r.raised THEN "fuse_raised" ELSE "fuse"
    /\ UNCHANGED <<cfg_boost, cfg_weights, conflicts>>
    /\ UNCHANGED <<hotVars, adjVars, cntVars, pipeVars, provVars, telVars>>

\* detect_conflicts(fused) on the entities the latest fusion returned
DetectConflicts ==
    /\ lastOp = "fuse"
    /\ conflicts' = detect_conflicts(fused)
    /\ lastOp' = "detect"
    /\ UNCHANGED <<candidates, cfg_boost, cfg_weights, fused>>
    /\ UNCHANGED <<hotVars, adjVars, cntVars, pipeVars, provVars, telVars>>

NextFuse == Calibrate \/ Fuse \/ DetectConflicts

SpecFuse == InitFuse /\ [][NextFuse]_vars

\* the same operations under every shape of the weight configuration
InitFuseCfg ==
    /\ \E s \in CandLists(CfgFamily) : candidates = WithIds(s)
    /\ cfg_boost \in Boosts
    /\ cfg_weights \in WeightCfgs
    /\ fused = <<>>
    /\ lastOp = "none"
    /\ conflicts = <<>>
    /\ IdleHot /\ IdleAdj /\ IdleCnt /\ IdlePipe /\ IdleProv /\ IdleTel

SpecFuseCfg == InitFuseCfg /\ [][NextFuse]_vars

----------------------------------------------------------------------------
(* Hotspots: one find_hotspots call *)

InitHot ==
    /\ \E n \in 0..MaxHotCands : hot_cands \in [1..n -> HotCandSet]
    /\ hot_max \in {NoKey, 0, 1, 2}
    /\ hot_i = 1
    /\ need_textract = FALSE /\ need_donut = FALSE /\ need_layoutlm = FALSE
    /\ regions_for_textract = <<>>
    /\ regions_for_donut = <<>>
    /\ regions_for_layoutlm = <<>>
    /\ hot_result = NotReturned
    /\ IdleFuse /\ IdleAdj /\ IdleCnt /\ IdlePipe /\ IdleProv /\ IdleTel

\* one iteration of "for c in candidates"
HotspotStep ==
    /\ hot_i <= Len(hot_cands)
    /\ LET c == hot_cands[hot_i]
           et == c.entity_type
           region == RegionOf(c)
           low == BelowThreshold(c)
       IN
       /\ need_layoutlm' = (need_layoutlm \/ (low /\ et \in {"TABLE", "WELD"}))
       /\ regions_for_layoutlm' =
            IF low /\ et \in {"TABLE", "WELD"}
            THEN Append(regions_for_layoutlm, region) ELSE regions_for_layoutlm
       /\ need_donut' = (need_donut \/ (low /\ et \in {"TABLE", "DIMENSION"}))
       /\ regions_for_donut' =
            IF low /\ et \in {"TABLE", "DIMENSION"}
            THEN Append(regions_for_donut, region) ELSE regions_for_donut
       /\ need_textract' = (need_textract \/ (low /\ et = "NOTE"))
       /\ regions_for_textract' =
            IF low /\ et = "NOTE"
            THEN Append(regions_for_textract, region) ELSE regions_for_textract
    /\ hot_i' = hot_i + 1
    /\ UNCHANGED <<hot_cands, hot_max, hot_result>>
    /\ UNCHANGED <<fuseVars, adjVars, cntVars, pipeVars, provVars, telVars>>

\* the return statement: every region list cut to max_regions_per_page
HotspotReturn ==
    /\ hot_i > Len(hot_cands)
    /\ hot_result = NotReturned
    /\ hot_result' =
         [returned |-> TRUE,
          need_textract |-> need_textract,
          need_donut |-> need_donut,
          need_layoutlm |-> need_layoutlm,
          regions_for_textract |-> Take(regions_for_textract, max_regions_per_page(hot_max)),
          regions_for_donut |-> Take(regions_for_donut, max_regions_per_page(hot_max)),
          regions_for_layoutlm |-> Take(regions_for_layoutlm, max_regions_per_page(hot_max))]
    /\ UNCHANGED <<hot_cands, hot_max, hot_i, need_textract, need_donut, need_layoutlm,
                   regions_for_textract, regions_for_donut, regions_for_layoutlm>>
    /\ UNCHANGED <<fuseVars, adjVars, cntVars, pipeVars, provVars, telVars>>

NextHot == HotspotStep \/ HotspotReturn

SpecHotspots == InitHot /\ [][NextHot]_vars

----------------------------------------------------------------------------
(* Adjudication: adjudicate_conflict and the V2 adjudicators *)

InitAdj ==
    /\ USE_ADJUDICATOR \in BOOLEAN
    /\ \E n \in 1..MaxAdjCands : adj_conflict \in [1..n -> ConflictCands]
    /\ adj_schema_keys \in {<<"value">>, <<"value", "unit">>}
    /\ adj_reply = NoReply
    /\ adj_result = NotCalled
    /\ v2_input = 0
    /\ v2_result = NotCalled
    /\ IdleFuse /\ IdleHot /\ IdleCnt /\ IdlePipe /\ IdleProv /\ IdleTel

\* adjudicate_conflict(conflict, schema_keys, cfg); the service is reached
\* only when USE_ADJUDICATOR is on
AdjudicateConflict ==
    /\ \E reply \in Replies :
         /\ adj_reply' = IF USE_ADJUDICATOR THEN reply ELSE NoReply
         /\ adj_result' = adjudicate_conflict(adj_conflict, adj_schema_keys,
                                              USE_ADJUDICATOR, reply)
    /\ UNCHANGED <<USE_ADJUDICATOR, adj_conflict, adj_schema_keys, v2_input, v2_result>>
    /\ UNCHANGED <<fuseVars, hotVars, cntVars, pipeVars, provVars, telVars>>

\* bom_adjudicator.adjudicate and its three siblings
AdjudicateV2 ==
    /\ \E n \in 0..MaxAdjCands, reply \in V2Replies :
         /\ v2_input' = n
         /\ v2_result' = v2_adjudicate(n, reply)
    /\ UNCHANGED <<USE_ADJUDICATOR, adj_conflict, adj_schema_keys, adj_reply, adj_result>>
    /\ UNCHANGED <<fuseVars, hotVars, cntVars, pipeVars, provVars, telVars>>

NextAdj == AdjudicateConflict \/ AdjudicateV2

SpecAdjudicate == InitAdj /\ [][NextAdj]_vars

----------------------------------------------------------------------------
(* Counts: _merge_counts applied to three count dicts *)

InitCounts ==
    /\ cnt_a \in CountDicts /\ cnt_b \in CountDicts /\ cnt_c \in CountDicts
    /\ cnt_out = NotMerged
    /\ IdleFuse /\ IdleHot /\ IdleAdj /\ IdlePipe /\ IdleProv /\ IdleTel

MergeCounts ==
    /\ ~cnt_out.done
    /\ cnt_out' =
         [done |-> TRUE,
          ab   |-> merge_counts(cnt_a, cnt_b),
          ba   |-> merge_counts(cnt_b, cnt_a),
          ab_c |-> merge_counts(merge_counts(cnt_a, cnt_b), cnt_c),
          a_bc |-> merge_counts(cnt_a, merge_counts(cnt_b, cnt_c)),
          ab_b |-> merge_counts(merge_counts(cnt_a, cnt_b), cnt_b)]
    /\ UNCHANGED <<cnt_a, cnt_b, cnt_c>>
    /\ UNCHANGED <<fuseVars, hotVars, adjVars, pipeVars, provVars, telVars>>

NextCounts == MergeCounts

SpecCounts == InitCounts /\ [][NextCounts]_vars

----------------------------------------------------------------------------
(* Pipeline runs: one call of an entry point, stage by stage *)

Entries == {"run_hybrid_on_image", "process_image", "run_blueprint_pipeline_v2"}

\* the configuration file as the entry point finds it; V2 reads none
CfgFiles(e) ==
    IF e = "run_blueprint_pipeline_v2" THEN {"ok"} ELSE {"ok", "missing", "malformed"}

InitPipe ==
    /\ entry \in Entries
    /\ cfg_file \in CfgFiles(entry)
    /\ input_ok \in BOOLEAN
    /\ USE_OPENAI \in BOOLEAN
    /\ pc = IF entry = "run_blueprint_pipeline_v2" THEN "start" ELSE "load_cfg"
    /\ status = "running"
    /\ failure = "none"
    /\ failed_providers = {}
    /\ reducto_candidates = <<>>
    /\ d_out = NoJson
    /\ l_out = EmptyDict /\ t_out = EmptyDict
    /\ reconciled = EmptyDict /\ merged = EmptyDict
    /\ validated = NotValidated
    /\ final = EmptyDict
    /\ adjudicator_called = FALSE
    /\ IdleFuse /\ IdleHot /\ IdleAdj /\ IdleCnt /\ IdleProv /\ IdleTel

Running(e, stage) == entry = e /\ status = "running" /\ pc = stage

\* the exception of `who` leaves the entry point
Fails(who) ==
    /\ status' = "Failed"
    /\ failure' = who
    /\ pc' = "raised"

\* a provider's call on this run: it cannot succeed on an unreadable document
OutcomesHere == IF input_ok THEN ProviderOutcomes ELSE {"error"}

\* pipeline._load_cfg: open and json.load inside try/except, the built-in
\* defaults on any exception
pipeline_load_cfg(file) == IF file = "ok" THEN "file" ELSE "defaults"

\* ensemble._load_cfg: open and json.load with no handler
ensemble_load_cfg(file) == IF file = "ok" THEN "file" ELSE "raises"

\* run_hybrid_on_image: cfg = _load_cfg(ENSEMBLE_CONFIG_PATH)
HybridLoadCfg ==
    /\ Running("run_hybrid_on_image", "load_cfg")
    /\ IF pipeline_load_cfg(cfg_file) = "raises"
       THEN Fails("config")
       ELSE pc' = "start" /\ UNCHANGED <<status, failure>>
    /\ UNCHANGED <<entry, cfg_file, input_ok, USE_OPENAI, failed_providers,
                   reducto_candidates, d_out, l_out, t_out, reconciled, merged,
                   validated, final>>
    /\ UNCHANGED adjudicator_called
    /\ UNCHANGED <<fuseVars, hotVars, adjVars, cntVars, provVars, telVars>>

\* process_image: cfg = cfg or _load_cfg(), and process: _load_cfg(cfg_path)
ProcLoadCfg ==
    /\ Running("process_image", "load_cfg")
    /\ IF ensemble_load_cfg(cfg_file) = "raises"
       THEN Fails("config")
       ELSE pc' = "start" /\ UNCHANGED <<status, failure>>
    /\ UNCHANGED <<entry, cfg_file, input_ok, USE_OPENAI, failed_providers,
                   reducto_candidates, d_out, l_out, t_out, reconciled, merged,
                   validated, final>>
    /\ UNCHANGED adjudicator_called
    /\ UNCHANGED <<fuseVars, hotVars, adjVars, cntVars, provVars, telVars>>

\* run_hybrid_on_image, step 1: reducto_adapter.predict inside try/except
HybridReducto ==
    /\ Running("run_hybrid_on_image", "start")
    /\ \E outcome \in OutcomesHere, cands \in ReductoLists :
         /\ reducto_candidates' = IF outcome = "ok" THEN cands ELSE <<>>
         /\ failed_providers' = IF outcome = "ok" THEN failed_providers
                                ELSE failed_providers \cup {"reducto"}
    /\ pc' = "donut"
    /\ UNCHANGED <<entry, cfg_file, input_ok, USE_OPENAI, status, failure, d_out, l_out, t_out,
                   reconciled, merged, validated, final>>
    /\ UNCHANGED adjudicator_called
    /\ UNCHANGED <<fuseVars, hotVars, adjVars, cntVars, provVars, telVars>>

\* step 2a: DonutRunner(...) and donut.predict_counts(image_path); Image.open
\* is the first read of the document
HybridDonut ==
    /\ Running("run_hybrid_on_image", "donut")
    /\ \E outcome \in OutcomesHere, j \in DonutJsons, has \in BOOLEAN :
         IF ~input_ok
         THEN Fails("input") /\ UNCHANGED <<d_out, failed_providers>>
         ELSE IF hybrid_escapes("donut", outcome)
         THEN /\ Fails("donut")
              /\ failed_providers' = failed_providers \cup {"donut"}
              /\ UNCHANGED d_out
         ELSE /\ d_out' = IF has THEN [has_json |-> TRUE, json |-> j] ELSE NoJson
              /\ pc' = "layoutlm"
              /\ UNCHANGED <<status, failure, failed_providers>>
    /\ UNCHANGED <<entry, cfg_file, input_ok, USE_OPENAI, reducto_candidates, l_out, t_out,
                   reconciled, merged, validated, final>>
    /\ UNCHANGED adjudicator_called
    /\ UNCHANGED <<fuseVars, hotVars, adjVars, cntVars, provVars, telVars>>

\* step 2b: predict_counts_with_layoutlm returns _empty_counts() on any failure
HybridLayoutLM ==
    /\ Running("run_hybrid_on_image", "layoutlm")
    /\ \E outcome \in OutcomesHere, c \in ConsistentCounts :
         /\ l_out' = IF outcome = "ok" THEN c ELSE ZeroCounts
         /\ failed_providers' = IF outcome = "ok" THEN failed_providers
                                ELSE failed_providers \cup {"layoutlm"}
    /\ pc' = "textract"
    /\ UNCHANGED <<entry, cfg_file, input_ok, USE_OPENAI, status, failure, reducto_candidates,
                   d_out, t_out, reconciled, merged, validated, final>>
    /\ UNCHANGED adjudicator_called
    /\ UNCHANGED <<fuseVars, hotVars, adjVars, cntVars, provVars, telVars>>

\* step 2c: predict_counts_with_textract; a failed API call yields no words
\* and zero counts, a failure of boto3.client() is not caught
HybridTextract ==
    /\ Running("run_hybrid_on_image", "textract")
    /\ \E outcome \in OutcomesHere, c \in ConsistentCounts :
         IF hybrid_escapes("textract", outcome)
         THEN /\ Fails("textract")
              /\ failed_providers' = failed_providers \cup {"textract"}
              /\ UNCHANGED t_out
         ELSE /\ t_out' = IF outcome = "ok" THEN c ELSE ZeroCounts
              /\ failed_providers' = IF outcome = "ok" THEN failed_providers
                                     ELSE failed_providers \cup {"textract"}
              /\ pc' = "merge"
              /\ UNCHANGED <<status, failure>>
    /\ UNCHANGED <<entry, cfg_file, input_ok, USE_OPENAI, reducto_candidates, d_out, l_out,
                   reconciled, merged, validated, final>>
    /\ UNCHANGED adjudicator_called
    /\ UNCHANGED <<fuseVars, hotVars, adjVars, cntVars, provVars, telVars>>

\* steps 3 and 4: reconcile_counts, then _merge_counts with the Reducto counts
HybridMerge ==
    /\ Running("run_hybrid_on_image", "merge")
    /\ reconciled' = reconcile_counts(d_out, l_out, t_out)
    /\ merged' = merge_counts(reconcile_counts(d_out, l_out, t_out),
                              counts_from_reducto_candidates(reducto_candidates))
    /\ pc' = "validate"
    /\ UNCHANGED <<entry, cfg_file, input_ok, USE_OPENAI, status, failure, failed_providers,
                   reducto_candidates, d_out, l_out, t_out, validated, final>>
    /\ UNCHANGED adjudicator_called
    /\ UNCHANGED <<fuseVars, hotVars, adjVars, cntVars, provVars, telVars>>

\* step 5: the optional OpenAI validation; the import is outside the try, a
\* failing validation falls back to the merged counts
HybridValidate ==
    /\ Running("run_hybrid_on_image", "validate")
    /\ \E v \in ValidatorOutcomes :
         IF ~USE_OPENAI
         THEN /\ final' = merged
              /\ status' = "Done" /\ pc' = "returned"
              /\ UNCHANGED <<validated, failure>>
         ELSE /\ validated' = v
              /\ IF v.kind = "import_error"
                 THEN Fails("validator") /\ UNCHANGED final
                 ELSE /\ final' = IF v.kind = "returns" THEN v.counts ELSE merged
                      /\ status' = "Done" /\ pc' = "returned"
                      /\ UNCHANGED failure
    /\ UNCHANGED <<entry, cfg_file, input_ok, USE_OPENAI, failed_providers, reducto_candidates,
                   d_out, l_out, t_out, reconciled, merged>>
    /\ UNCHANGED adjudicator_called
    /\ UNCHANGED <<fuseVars, hotVars, adjVars, cntVars, provVars, telVars>>

\* process_image: the provider calls in the order of the code
ProcOrder == <<"donut", "layoutlm", "textract", "reducto">>

ProcStage(n) == IF n = 1 THEN "start" ELSE ProcOrder[n]

\* process_image: one provider call inside its try/except; an exception
\* leaves the provider's default in place
ProcProvider(n) ==
    /\ Running("process_image", ProcStage(n))
    /\ \E outcome \in OutcomesHere :
         IF process_image_escapes(ProcOrder[n], outcome)
         THEN /\ Fails(ProcOrder[n])
              /\ failed_providers' = failed_providers \cup {ProcOrder[n]}
         ELSE /\ failed_providers' = IF outcome = "ok" THEN failed_providers
                                     ELSE failed_providers \cup {ProcOrder[n]}
              /\ pc' = IF n < Len(ProcOrder) THEN ProcStage(n + 1) ELSE "validate"
              /\ UNCHANGED <<status, failure>>
    /\ UNCHANGED <<entry, cfg_file, input_ok, USE_OPENAI, reducto_candidates, d_out, l_out, t_out,
                   reconciled, merged, validated, final>>
    /\ UNCHANGED adjudicator_called
    /\ UNCHANGED <<fuseVars, hotVars, adjVars, cntVars, provVars, telVars>>

\* process_image: validate_with_openai_requests is called bare and its result
\* is the final counts
ProcValidate ==
    /\ Running("process_image", "validate")
    /\ \E v \in ValidatorOutcomes :
         /\ validated' = v
         /\ IF v.kind = "returns"
            THEN /\ final' = v.counts
                 /\ status' = "Done" /\ pc' = "returned"
                 /\ UNCHANGED failure
            ELSE Fails("validator") /\ UNCHANGED final
    /\ UNCHANGED <<entry, cfg_file, input_ok, USE_OPENAI, failed_providers, reducto_candidates,
                   d_out, l_out, t_out, reconciled, merged>>
    /\ UNCHANGED adjudicator_called
    /\ UNCHANGED <<fuseVars, hotVars, adjVars, cntVars, provVars, telVars>>

\* run_blueprint_pipeline_v2, step 1: classify_document raises on a missing
\* file, an unsupported document raises ValueError
V2Classify ==
    /\ Running("run_blueprint_pipeline_v2", "start")
    /\ IF input_ok
       THEN pc' = "first_pass" /\ UNCHANGED <<status, failure>>
       ELSE Fails("input")
    /\ UNCHANGED <<entry, cfg_file, input_ok, USE_OPENAI, failed_providers, reducto_candidates,
                   d_out, l_out, t_out, reconciled, merged, validated, final>>
    /\ UNCHANGED adjudicator_called
    /\ UNCHANGED <<fuseVars, hotVars, adjVars, cntVars, provVars, telVars>>

\* step 2: o4_mini_provider.first_pass_page, called bare for each page
V2FirstPass ==
    /\ Running("run_blueprint_pipeline_v2", "first_pass")
    /\ \E outcome \in ProviderOutcomes :
         IF v2_escapes("o4-mini", outcome)
         THEN /\ Fails("o4-mini")
              /\ failed_providers' = failed_providers \cup {"o4-mini"}
         ELSE /\ pc' = "fan_out"
              /\ UNCHANGED <<status, failure, failed_providers>>
    /\ UNCHANGED <<entry, cfg_file, input_ok, USE_OPENAI, reducto_candidates, d_out, l_out, t_out,
                   reconciled, merged, validated, final>>
    /\ UNCHANGED adjudicator_called
    /\ UNCHANGED <<fuseVars, hotVars, adjVars, cntVars, provVars, telVars>>

FanOutProviders == {"reducto", "textract", "donut", "layoutlm"}

\* step 4: the parse_region calls of a bom_table region
V2FanOut ==
    /\ Running("run_blueprint_pipeline_v2", "fan_out")
    /\ \E outcomes \in [FanOutProviders -> ProviderOutcomes] :
         LET failed == {q \in FanOutProviders : outcomes[q] # "ok"}
             escaped == {q \in FanOutProviders : v2_escapes(q, outcomes[q])}
         IN  /\ failed_providers' = failed_providers \cup failed
             /\ IF escaped # {}
                THEN Fails(CHOOSE q \in escaped : TRUE)
                ELSE pc' = "adjudicate" /\ UNCHANGED <<status, failure>>
    /\ UNCHANGED <<entry, cfg_file, input_ok, USE_OPENAI, reducto_candidates, d_out, l_out, t_out,
                   reconciled, merged, validated, final>>
    /\ UNCHANGED adjudicator_called
    /\ UNCHANGED <<fuseVars, hotVars, adjVars, cntVars, provVars, telVars>>

\* steps 5 and 6: the per-entity adjudicators, called bare, then the normalizer
V2Adjudicate ==
    /\ Running("run_blueprint_pipeline_v2", "adjudicate")
    /\ \E reply \in V2Replies :
         /\ IF v2_adjudicate(Cardinality(FanOutProviders) + 1, reply).status = "raised"
            THEN Fails("adjudicator")
            ELSE /\ status' = "Done" /\ pc' = "returned"
                 /\ UNCHANGED failure
         /\ adjudicator_called' =
               v2_calls_model(Cardinality(FanOutProviders) + 1, reply)
    /\ UNCHANGED <<entry, cfg_file, input_ok, USE_OPENAI, failed_providers, reducto_candidates,
                   d_out, l_out, t_out, reconciled, merged, validated, final>>
    /\ UNCHANGED <<fuseVars, hotVars, adjVars, cntVars, provVars, telVars>>

NextPipe ==
    \/ HybridLoadCfg
    \/ ProcLoadCfg
    \/ HybridReducto
    \/ HybridDonut
    \/ HybridLayoutLM
    \/ HybridTextract
    \/ HybridMerge
    \/ HybridValidate
    \/ \E n \in 1..Len(ProcOrder) : ProcProvider(n)
    \/ ProcValidate
    \/ V2Classify
    \/ V2FirstPass
    \/ V2FanOut
    \/ V2Adjudicate

SpecPipeline == InitPipe /\ [][NextPipe]_vars

----------------------------------------------------------------------------
(* Providers: parse_region calls on regions of a document *)

InitProviders ==
    /\ prov_call = NoCall
    /\ prov_result = NoProviderResult
    /\ IdleFuse /\ IdleHot /\ IdleAdj /\ IdleCnt /\ IdlePipe /\ IdleTel

\* <provider>.parse_region(region, context=job_context)
ParseRegion ==
    /\ \E provider \in ProviderNames, region_type \in RegionTypes,
          loaded \in BOOLEAN, first \in CallOutcomes, second \in CallOutcomes,
          third \in CallOutcomes, found \in 0..1 :
         LET c == Call(provider, region_type, loaded, first, second, third, found)
         IN  /\ prov_call' = c
             /\ prov_result' = parse_region(c)
    /\ UNCHANGED <<fuseVars, hotVars, adjVars, cntVars, pipeVars, telVars>>

NextProviders == ParseRegion

SpecProviders == InitProviders /\ [][NextProviders]_vars

----------------------------------------------------------------------------
(* Telemetry: log_entity and log_summary calls on the log files of a document *)

InitTelemetry ==
    /\ tel_calls = <<>>
    /\ entities_log = <<>>
    /\ summary_log = <<>>
    /\ tel_last = NotCalled
    /\ IdleFuse /\ IdleHot /\ IdleAdj /\ IdleCnt /\ IdlePipe /\ IdleProv

\* log_entity(entities_path, base_fields, cand, provider_weights)
LogEntity ==
    /\ Len(tel_calls) < MaxLogCalls
    /\ \E payload \in Payloads, outcome \in WriteOutcomes :
         LET row == Row("log_entity", payload)
             w == append_ndjson(entities_log, row, outcome)
         IN  /\ entities_log' = w.file
             /\ tel_last' = w.result
             /\ tel_calls' = Append(tel_calls, [row |-> row, outcome |-> outcome])
    /\ UNCHANGED summary_log
    /\ UNCHANGED <<fuseVars, hotVars, adjVars, cntVars, pipeVars, provVars>>

\* log_summary(summary_path, base_fields, latency_ms, counts, ...)
LogSummary ==
    /\ Len(tel_calls) < MaxLogCalls
    /\ \E payload \in Payloads, outcome \in WriteOutcomes :
         LET row == Row("log_summary", payload)
             w == append_ndjson(summary_log, row, outcome)
         IN  /\ summary_log' = w.file
             /\ tel_last' = w.result
             /\ tel_calls' = Append(tel_calls, [row |-> row, outcome |-> outcome])
    /\ UNCHANGED entities_log
    /\ UNCHANGED <<fuseVars, hotVars, adjVars, cntVars, pipeVars, provVars>>

NextTelemetry == LogEntity \/ LogSummary

SpecTelemetry == InitTelemetry /\ [][NextTelemetry]_vars

----------------------------------------------------------------------------
(* Fusion: winner selection *)

TypesOf(cands) == {cands[i].entity_type : i \in 1..Len(cands)}

OfType(cands, etype) == {i \in 1..Len(cands) : cands[i].entity_type = etype}

\* the score of the claim: weight of (entity type, provider), 0 without an
\* entry, times the calibrated confidence, the raw one when none is set
ClaimWeight(c) ==
    IF c.provider \in DOMAIN provider_weights[c.entity_type]
    THEN provider_weights[c.entity_type][c.provider] ELSE 0

ClaimConfidence(c) ==
    IF c.confidence_calibrated # NoKey THEN c.confidence_calibrated
    ELSE c.confidence

ClaimScore(c) == ClaimWeight(c) * ClaimConfidence(c)

IsFirstMax(cands, etype, i) ==
    /\ i \in OfType(cands, etype)
    /\ \A j \in OfType(cands, etype) : ClaimScore(cands[j]) <= ClaimScore(cands[i])
    /\ \A j \in OfType(cands, etype) : j < i => ClaimScore(cands[j]) < ClaimScore(cands[i])

FusedOfType(etype) == {t \in 1..Len(fused) : fused[t].entity_type = etype}

\* C1: after fuse_entities, the winner of every entity type is the first
\* candidate in input order among those of maximal score (weight times
\* calibrated confidence, weight 0 for a provider without an entry); the three
\* dimensions donut 0.9, reducto 0.6, layoutlmv3 0.4 without boost give reducto.
C1_WinnerIsFirstMax ==
    lastOp = "fuse" =>
        /\ \A etype \in TypesOf(candidates) :
             \E t \in FusedOfType(etype) :
                IsFirstMax(candidates, etype, fused[t].id)
        /\ ( /\ cfg_boost = 0
             /\ Len(candidates) = 3
             /\ \A i \in 1..3 : candidates[i].entity_type = "DIMENSION"
             /\ {<<candidates[i].provider, candidates[i].confidence>> : i \in 1..3}
                  = {<<"donut", 90>>, <<"reducto", 60>>, <<"layoutlmv3", 40>>} )
           => fused[1].provider = "reducto"

C1_Witness ==
    /\ lastOp = "fuse"
    /\ cfg_boost = 0
    /\ Len(candidates) = 3
    /\ candidates[1].provider = "donut" /\ candidates[1].confidence = 90
    /\ candidates[2].provider = "reducto" /\ candidates[2].confidence = 60
    /\ candidates[3].provider = "layoutlmv3" /\ candidates[3].confidence = 40
    /\ \A i \in 1..3 : candidates[i].entity_type = "DIMENSION"
    /\ Len(fused) = 1
    /\ fused[1].id = 2

WinnerIds(f) == {<<f[t].entity_type, f[t].provider, f[t].id>> : t \in 1..Len(f)}

\* C2: two fuse_entities calls in succession on the same list, under the same
\* configuration, return the same winner (provider and id) for every type.
C2_RepeatedFuseSameWinner ==
    [][(lastOp = "fuse" /\ lastOp' = "fuse") => WinnerIds(fused') = WinnerIds(fused)]_vars

----------------------------------------------------------------------------
(* Fusion: WELD backfill *)

\* losing WELD candidates that can give field k to the winner w
Donors(cands, w, k) ==
    {j \in OfType(cands, "WELD") \ {w} :
        /\ cands[j].fields[k] \notin {None, EmptyStr, Zero}
        /\ ClaimConfidence(cands[j]) >= ClaimConfidence(cands[w])}

\* C3: when the WELD winner's value of a listed field is null, empty or zero
\* and a loser with a non-empty value has calibrated confidence >= the
\* winner's, the fused entity carries such a loser's value and its reason is
\* field_backfill.
C3_WeldBackfill ==
    lastOp = "fuse" =>
        \A t \in FusedOfType("WELD") :
          \A n \in 1..Len(field_names) :
            LET k == field_names[n]
                w == fused[t].id
            IN  ( /\ candidates[w].fields[k] \in {None, EmptyStr, Zero}
                  /\ Donors(candidates, w, k) # {} )
                => /\ fused[t].fields[k] \in
                        {candidates[j].fields[k] : j \in Donors(candidates, w, k)}
                   /\ fused[t].reason = "field_backfill"

\* policy parameters of the conflict detector: the score distance that counts
\* as a tie, and the calibrated confidence below which a winner is adjudicated
conflict_epsilon == 0

adjudication_threshold == 50

Flagged(etype) == \E n \in 1..Len(conflicts) : conflicts[n].entity_type = etype

\* a candidate of the winner's type scoring within epsilon of it, with
\* different fields
CloseRival(t) ==
    \E j \in OfType(candidates, fused[t].entity_type) \ {fused[t].id} :
        /\ ClaimScore(candidates[fused[t].id]) - ClaimScore(candidates[j])
             <= conflict_epsilon
        /\ candidates[j].fields # candidates[fused[t].id].fields

\* C14: after detect_conflicts, every entity type with a close rival that
\* disagrees with the winner, and every fused entity whose calibrated
\* confidence is below the adjudication threshold, has a Conflict.
C14_ConflictsFlagged ==
    lastOp = "detect" =>
        \A t \in 1..Len(fused) :
            (CloseRival(t) \/ CalibratedOrRaw(fused[t]) < adjudication_threshold)
                => Flagged(fused[t].entity_type)

----------------------------------------------------------------------------
(* Hotspots *)

\* the static table from entity type to backup providers
BackupProviders(entity_type) ==
    CASE entity_type = "TABLE"     -> {"layoutlm", "donut"}
      [] entity_type = "DIMENSION" -> {"donut"}
      [] entity_type = "WELD"      -> {"layoutlm"}
      [] entity_type = "NOTE"      -> {"textract"}
      [] OTHER                     -> {}

Contributes(c, provider) ==
    /\ c.confidence < low_conf_threshold
    /\ provider \in BackupProviders(c.entity_type)

\* the regions expected for one provider, in candidate order
ExpectedRegions(provider) ==
    LET hits == SelectSeq(hot_cands, LAMBDA c : Contributes(c, provider))
    IN  [n \in 1..Len(hits) |->
            [page |-> hits[n].page,
             bbox |-> IF hits[n].bbox = None THEN DefaultBBox ELSE hits[n].bbox]]

\* C6: when find_hotspots returns, each provider's region list before the cut
\* holds exactly the {page, bbox} of the candidates below the threshold whose
\* type maps to that provider, and the need flag is set exactly when there is
\* one; a WELD at 0.3 under threshold 0.75 is among the layoutlm regions.
C6_HotspotRegions ==
    hot_result.returned =>
        /\ regions_for_layoutlm = ExpectedRegions("layoutlm")
        /\ regions_for_donut = ExpectedRegions("donut")
        /\ regions_for_textract = ExpectedRegions("textract")
        /\ hot_result.need_layoutlm = (ExpectedRegions("layoutlm") # <<>>)
        /\ hot_result.need_donut = (ExpectedRegions("donut") # <<>>)
        /\ hot_result.need_textract = (ExpectedRegions("textract") # <<>>)
        /\ \A i \in 1..Len(hot_cands) :
             (hot_cands[i].entity_type = "WELD" /\ hot_cands[i].confidence = 30)
             => \E n \in 1..Len(regions_for_layoutlm) :
                   /\ regions_for_layoutlm[n].page = hot_cands[i].page
                   /\ regions_for_layoutlm[n].bbox \in {hot_cands[i].bbox, DefaultBBox}

C6_Witness ==
    /\ hot_result.returned
    /\ \E i, j \in 1..Len(hot_cands) :
         /\ hot_cands[i].entity_type = "WELD" /\ hot_cands[i].confidence = 30
         /\ hot_cands[j].entity_type = "WELD" /\ hot_cands[j].confidence = 75
    /\ Len(hot_result.regions_for_layoutlm) = 1
    /\ hot_result.need_layoutlm
    /\ ~hot_result.need_donut

\* the list find_hotspots returned for one provider
ReturnedRegions(provider) ==
    CASE provider = "textract" -> hot_result.regions_for_textract
      [] provider = "donut"    -> hot_result.regions_for_donut
      [] provider = "layoutlm" -> hot_result.regions_for_layoutlm

\* hotspot.max_regions_per_page of the call, 999 when the key is absent
RegionCap == IF hot_max = NoKey THEN DefaultMaxRegions ELSE hot_max

\* C20: each region list find_hotspots returns has at most
\* max_regions_per_page entries, and they are the first qualifying regions in
\* candidate order.
C20_RegionsTruncated ==
    hot_result.returned =>
        \A provider \in {"textract", "donut", "layoutlm"} :
            LET got == ReturnedRegions(provider)
                exp == ExpectedRegions(provider)
            IN  /\ Len(got) <= RegionCap
                /\ Len(got) = Min(RegionCap, Len(exp))
                /\ \A n \in 1..Len(got) : got[n] = exp[n]

\* three low WELD or TABLE candidates cut to the first one
C20_Witness ==
    /\ hot_result.returned
    /\ hot_max = 1
    /\ Len(ExpectedRegions("layoutlm")) = MaxHotCands
    /\ ExpectedRegions("layoutlm")[1] # ExpectedRegions("layoutlm")[MaxHotCands]
    /\ hot_result.regions_for_layoutlm = <<ExpectedRegions("layoutlm")[1]>>

----------------------------------------------------------------------------
(* Adjudication *)

\* the confidence the fallback compares, a missing one counting as 0
RawConfidence(c) == IF c.confidence = NoKey THEN 0 ELSE c.confidence

IsFirstMostConfident(cands, i) ==
    /\ i \in 1..Len(cands)
    /\ \A j \in 1..Len(cands) : RawConfidence(cands[j]) <= RawConfidence(cands[i])
    /\ \A j \in 1..(i - 1) : RawConfidence(cands[j]) < RawConfidence(cands[i])

FallbackCase ==
    /\ adj_result.status # "none"
    /\ Len(adj_conflict) > 0
    /\ (~USE_ADJUDICATOR \/ adj_reply.kind = "invalid_json")

\* C4: with the service disabled, or a reply that is not valid JSON,
\* adjudicate_conflict returns the fields of the first candidate of maximal
\* raw confidence (missing confidence counting as 0).
C4_FallbackHighestConfidence ==
    FallbackCase =>
        /\ adj_result.status = "returned"
        /\ \E i \in 1..Len(adj_conflict) :
             /\ IsFirstMostConfident(adj_conflict, i)
             /\ adj_result.value =
                  (IF adj_conflict[i].has_fields THEN adj_conflict[i].fields ELSE EmptyDict)

C4_Witness ==
    /\ USE_ADJUDICATOR
    /\ adj_reply.kind = "invalid_json"
    /\ Len(adj_conflict) = 2
    /\ adj_conflict[1].confidence = 90 /\ adj_conflict[2].confidence = 90
    /\ adj_conflict[1].fields # adj_conflict[2].fields
    /\ adj_result = Returned(adj_conflict[1].fields)

\* C5: adjudicate_conflict and the V2 adjudicators never raise to the caller,
\* whatever the language-model call does.
C5_AdjudicationNeverRaises ==
    /\ adj_result.status # "raised"
    /\ v2_result.status # "raised"

\* C12: whatever adjudicate_conflict returns, on the service path and on the
\* fallback paths, has no key outside schema_keys.
C12_OnlySchemaKeys ==
    adj_result.status = "returned" =>
        DOMAIN adj_result.value \subseteq SeqToSet(adj_schema_keys)

\* the reply is a JSON object whose key set is not exactly schema_keys
KeySetMismatch ==
    /\ adj_result.status # "none"
    /\ USE_ADJUDICATOR
    /\ adj_reply.kind = "json_object"
    /\ DOMAIN adj_reply.data # SeqToSet(adj_schema_keys)

\* C13: when the reply is valid JSON with a missing or an extra key,
\* adjudicate_conflict returns the fields of the first candidate of maximal
\* raw confidence, not values of the reply.
C13_KeyMismatchFallsBack ==
    KeySetMismatch =>
        /\ adj_result.status = "returned"
        /\ \E i \in 1..Len(adj_conflict) :
             /\ IsFirstMostConfident(adj_conflict, i)
             /\ adj_result.value =
                  (IF adj_conflict[i].has_fields THEN adj_conflict[i].fields ELSE EmptyDict)

----------------------------------------------------------------------------
(* Counts-only merge *)

\* C7: the counts-only merge is associative, commutative and idempotent on the
\* six Counts fields.
C7_MergeAlgebra ==
    cnt_out.done =>
        \A k \in SchemaKeys :
            /\ cnt_out.ab_c[k] = cnt_out.a_bc[k]
            /\ cnt_out.ab[k] = cnt_out.ba[k]
            /\ cnt_out.ab_b[k] = cnt_out.ab[k]

C7_Witness ==
    /\ cnt_out.done
    /\ cnt_a = Counts(FALSE, MaxCount, 0, 0, 0, 0)
    /\ cnt_b = Counts(TRUE, 1, MaxCount, 1, 0, 2)
    /\ cnt_c = ("weld_symbols_count" :> MaxCount)
    /\ cnt_out.ab_c["weld_symbols_count"] = MaxCount
    /\ cnt_out.ab_c[PresentKey] = TRUE

----------------------------------------------------------------------------
(* Pipeline: merged counts and run outcomes *)

Providers == {"reducto", "donut", "layoutlm", "textract", "o4-mini"}

HybridMerged == entry = "run_hybrid_on_image" /\ pc \in {"validate", "returned"}

\* the counts each source reported on this run
DonutCounts == IF d_out.has_json THEN d_out.json ELSE EmptyDict

ReductoCounts ==
    [k \in SchemaKeys |->
        CASE k = PresentKey -> \E i \in 1..Len(reducto_candidates) :
                                   reducto_candidates[i] = "WELD"
          [] k = "weld_symbols_count" ->
                Cardinality({i \in 1..Len(reducto_candidates) :
                                reducto_candidates[i] = "WELD"})
          [] k = "dim_values_count" ->
                Cardinality({i \in 1..Len(reducto_candidates) :
                                reducto_candidates[i] = "DIMENSION"})
          [] OTHER -> 0]

SourceCounts == {DonutCounts, l_out, t_out, ReductoCounts}

\* C8: once the counts of a run are merged, weld_symbols_present is true
\* whenever a source reported weld_symbols_count > 0, and the merged counts
\* never pair weld_symbols_count > 0 with weld_symbols_present = false.
C8_WeldFlagConsistent ==
    HybridMerged =>
        /\ (merged["weld_symbols_count"] > 0 => merged[PresentKey])
        /\ \A src \in SourceCounts :
             GetOr(src, "weld_symbols_count", 0) > 0 => merged[PresentKey]

\* a run in which only Donut reports welds and it leaves the flag unset
C8_Witness ==
    /\ HybridMerged
    /\ d_out.has_json /\ d_out.json = ("weld_symbols_count" :> 2)
    /\ l_out = ZeroCounts /\ t_out = ZeroCounts
    /\ reducto_candidates = <<>>
    /\ merged[PresentKey] /\ merged["weld_symbols_count"] = 2

HybridDone == entry = "run_hybrid_on_image" /\ status = "Done"

ValidatorKeptMerged == validated.kind \in {"off", "raises"}

C10_ProviderFailureNeverFailsRun ==
    status = "Failed" => failure \notin Providers

----------------------------------------------------------------------------
(* Providers *)

\* an inner call that parse_region made has raised
InternalFailure(c) ==
    /\ c.loaded
    /\ CASE c.provider = "textract" -> c.first = "raises" \/ c.second = "raises"
         [] c.provider = "layoutlm" ->
               \/ c.first = "raises"
               \/ c.second = "raises"
               \/ (c.found > 0 /\ c.third = "raises")
         [] OTHER -> c.first = "raises"

\* C11: every parse_region call returns a ProviderResult, and when an inner
\* call failed the result has empty entity lists and raw.error populated.
C11_ParseRegionNeverRaises ==
    prov_result.status # "none" =>
        /\ prov_result.status = "returned"
        /\ InternalFailure(prov_call) =>
             /\ prov_result.bom_rows = 0
             /\ prov_result.welds = 0
             /\ prov_result.dimensions = 0
             /\ prov_result.raw_error

\* the run found its configuration file missing or malformed
ConfigError == entry # "none" /\ cfg_file # "ok"

\* C15: with a missing or malformed configuration file, the run goes on with
\* the built-in defaults: it does not fail while loading the configuration.
C15_ConfigErrorUsesDefaults ==
    ConfigError => failure # "config"

\* the document of the run is missing or corrupt
InputError == entry # "none" /\ ~input_ok

MergeInputs ==
    {reconciled, counts_from_reducto_candidates(reducto_candidates)}

\* C19: every count that enters the counts-only merge, and so every merged
\* count, lies in [0, cap]; clip(v, cap) is in [0, cap] and leaves the values
\* of [0, cap] unchanged.
C19_CountsClipped ==
    /\ \A v \in (0 - 1)..(CountCap + 1) :
         /\ clip(v, CountCap) \in 0..CountCap
         /\ (v \in 0..CountCap => clip(v, CountCap) = v)
    /\ HybridMerged =>
         /\ \A src \in MergeInputs : \A k \in CountKeys : src[k] \in 0..CountCap
         /\ \A k \in CountKeys : merged[k] \in 0..CountCap

----------------------------------------------------------------------------
(* Telemetry *)

\* C16: log_entity and log_summary never raise to the caller, also when
\* creating the directory or writing the file fails.
C16_LoggingNeverRaises ==
    tel_last.status # "raised"

\* the rows of the calls of `op`, in call order
RowsOf(op, calls) ==
    LET mine == SelectSeq(calls, LAMBDA c : c.row.op = op)
    IN  [n \in 1..Len(mine) |-> mine[n].row]

\* the complete records of a file, in file order
RecordsIn(file) ==
    LET recs == SelectSeq(file, LAMBDA chunk : chunk.kind = "record")
    IN  [n \in 1..Len(recs) |-> recs[n].row]

Succeeded(calls) == SelectSeq(calls, LAMBDA c : c.outcome = "ok")

----------------------------------------------------------------------------
(* Claims about fusion under a malformed weight configuration *)

\* the configuration is one of the malformed shapes
Malformed == cfg_weights # WellFormed

\* C21: a malformed weight configuration (no fusion_rules, no entry for the
\* entity type, an entry that is not a provider -> number map, a weight that
\* is not a number) never makes fuse_entities fail: the call returns, with one
\* fused entity for every entity type of the input.
C21_MalformedWeightsNeverFail ==
    /\ lastOp # "fuse_raised"
    /\ (Malformed /\ lastOp = "fuse") =>
          \A etype \in TypesOf(candidates) : Cardinality(FusedOfType(etype)) = 1

----------------------------------------------------------------------------
(* Claims about the shape of the fused list *)

\* the entity types a candidate can carry
EntityTypes == {"TABLE", "DIMENSION", "WELD", "NOTE", "SECTION", "OTHER"}

\* C22: fuse_entities returns exactly one fused entity, marked _accepted, for
\* every entity type with at least one candidate and none for a type without
\* candidates; an empty input gives an empty result.
C22_OneFusedPerType ==
    lastOp = "fuse" =>
        /\ \A etype \in EntityTypes :
             Cardinality(FusedOfType(etype)) =
                IF etype \in TypesOf(candidates) THEN 1 ELSE 0
        /\ \A t \in 1..Len(fused) : fused[t].accepted = TRUE
        /\ Len(fused) = Cardinality(TypesOf(candidates))
        /\ (candidates = <<>> => fused = <<>>)

\* three candidates of two types, one type held by a provider of weight 0
C22_Witness ==
    /\ lastOp = "fuse"
    /\ Len(candidates) = 3
    /\ Cardinality(TypesOf(candidates)) = 2
    /\ Len(fused) = 2
    /\ \E t \in 1..Len(fused) : ClaimScore(fused[t]) = 0

----------------------------------------------------------------------------
(* Claims about the WELD backfill guard and the fusion reasons *)

\* the WELD candidates other than the winner w
Losers(cands, w) == OfType(cands, "WELD") \ {w}

\* C23: fuse_entities never copies a WELD field from a losing candidate whose
\* calibrated confidence (the raw one when none is set) is strictly below the
\* winner's: a fused field that differs from the winner's comes from a loser
\* at least as confident, and when every loser is strictly below the winner
\* the fields stay the winner's and _reason stays owner_default.
C23_NoBackfillFromWeaker ==
    lastOp = "fuse" =>
        \A t \in FusedOfType("WELD") :
          LET w == fused[t].id IN
          /\ \A n \in 1..Len(field_names) :
               LET k == field_names[n] IN
               fused[t].fields[k] # candidates[w].fields[k] =>
                 \E j \in Losers(candidates, w) :
                    /\ candidates[j].fields[k] = fused[t].fields[k]
                    /\ ClaimConfidence(candidates[j]) >= ClaimConfidence(candidates[w])
          /\ (\A j \in Losers(candidates, w) :
                ClaimConfidence(candidates[j]) < ClaimConfidence(candidates[w]))
             => /\ fused[t].fields = candidates[w].fields
                /\ fused[t].reason = "owner_default"

\* C24: every DIMENSION fused entity has _reason = highest_weighted.
C24_DimensionReason ==
    lastOp = "fuse" =>
        \A t \in FusedOfType("DIMENSION") : fused[t].reason = "highest_weighted"

\* C29: a fused entity has _reason = field_backfill only if a field value was
\* copied from a candidate other than the winner, so that its fields differ
\* from the winning candidate's; a type with one candidate never yields
\* field_backfill.
C29_BackfillOnlyFromOthers ==
    lastOp = "fuse" =>
        \A t \in 1..Len(fused) :
          fused[t].reason = "field_backfill" =>
            /\ fused[t].fields # candidates[fused[t].id].fields
            /\ Cardinality(OfType(candidates, fused[t].entity_type)) > 1

----------------------------------------------------------------------------
(* Claims about the agreement boost *)

\* no candidate carries a boost yet: confidence_calibrated is absent or is
\* the raw confidence
Unboosted(cands) ==
    \A i \in 1..Len(cands) :
        cands[i].confidence_calibrated \in {NoKey, cands[i].confidence}

\* DIMENSION candidate i has a non-null value that another DIMENSION
\* candidate has too
Agrees(cands, i) ==
    /\ cands[i].entity_type = "DIMENSION"
    /\ cands[i].fields["value"] # None
    /\ \E j \in OfType(cands, "DIMENSION") \ {i} :
          cands[j].fields["value"] = cands[i].fields["value"]

\* C25: with agreement_boost > 0, one fuse_entities call on candidates that
\* carry no boost gives every DIMENSION candidate whose non-null value equals
\* that of another DIMENSION candidate confidence_calibrated =
\* min(1.0, confidence + boost), and leaves the DIMENSION candidates with a
\* unique or null value without boost.
C25_AgreementBoost ==
    [][ (lastOp' = "fuse" /\ cfg_boost > 0 /\ Unboosted(candidates)) =>
          \A i \in OfType(candidates, "DIMENSION") :
             IF Agrees(candidates, i)
             THEN candidates'[i].confidence_calibrated =
                     Min(100, candidates[i].confidence + cfg_boost)
             ELSE candidates'[i].confidence_calibrated =
                     candidates[i].confidence_calibrated ]_vars

\* two agreeing dimensions, one of them clamped at 1.0, and a third with a
\* value of its own
C25_Witness ==
    /\ lastOp = "fuse" /\ cfg_boost > 0
    /\ \E i, j, k \in OfType(candidates, "DIMENSION") :
         /\ i # j /\ Agrees(candidates, i) /\ ~Agrees(candidates, k)
         /\ candidates[i].fields["value"] = candidates[j].fields["value"]
         /\ candidates[i].confidence + cfg_boost > 100
         /\ candidates[i].confidence_calibrated = 100
         /\ candidates[j].confidence_calibrated = candidates[j].confidence + cfg_boost
         /\ candidates[k].confidence_calibrated = NoKey

\* C30: for raw confidences in [0, 1] and agreement_boost >= 0, after any
\* number of fuse_entities calls every confidence_calibrated set on a
\* candidate lies between that candidate's raw confidence and 1.0.
C30_CalibratedInRange ==
    \A i \in 1..Len(candidates) :
        candidates[i].confidence_calibrated # NoKey =>
            /\ candidates[i].confidence <= candidates[i].confidence_calibrated
            /\ candidates[i].confidence_calibrated <= 100

\* a candidate boosted by at least two calls and held at 1.0 by the clamp
C30_Witness ==
    /\ lastOp = "fuse" /\ cfg_boost > 0
    /\ \E i \in 1..Len(candidates) :
         /\ candidates[i].confidence + 2 * cfg_boost <= 100
         /\ candidates[i].confidence_calibrated = 100

----------------------------------------------------------------------------
(* Claims about the low_confidence mark of a candidate *)

\* C27: every candidate carries low_confidence = (confidence < the
\* configured hotspot.low_conf_threshold, 0.75 by default), so a candidate is
\* marked low_confidence exactly when find_hotspots treats it as below the
\* threshold.
C27_LowConfidenceIsThreshold ==
    hot_result.returned =>
        \A i \in 1..Len(hot_cands) :
            hot_cands[i].low_confidence = BelowThreshold(hot_cands[i])

----------------------------------------------------------------------------
(* Claims about when the adjudicator service is called *)

\* C26: the external adjudicator service is called only for conflicts found
\* by the conflict detector: in a run where detect_conflicts reported no
\* conflict, no adjudicator call is made.
C26_AdjudicatorOnlyOnConflict ==
    conflicts = <<>> => ~adjudicator_called

----------------------------------------------------------------------------
(* Claims about what fuse_entities writes into its input *)

\* the keys of a candidate that fuse_entities has no business writing
Frame(c) ==
    [id |-> c.id, entity_type |-> c.entity_type, page |-> c.page,
     bbox |-> c.bbox, fields |-> c.fields, confidence |-> c.confidence,
     provider |-> c.provider]

\* C28: fuse_entities changes no input candidate's id, entity_type, page,
\* bbox, fields, confidence or provider; on the inputs it only adds or
\* updates confidence_calibrated and _agreement_partners, and the WELD
\* backfill writes into the cloned fused entity only.
C28_InputsKept ==
    [][ lastOp' \in {"fuse", "fuse_raised"} =>
          /\ Len(candidates') = Len(candidates)
          /\ \A i \in 1..Len(candidates) :
                /\ Frame(candidates'[i]) = Frame(candidates[i])
                /\ candidates'[i].low_confidence = candidates[i].low_confidence ]_vars

\* a WELD fusion whose fused entity took a field the winning candidate
\* still lacks
C28_Witness ==
    /\ lastOp = "fuse"
    /\ \E t \in FusedOfType("WELD") :
         /\ fused[t].reason = "field_backfill"
         /\ fused[t].fields # candidates[fused[t].id].fields
         /\ IsMissing(candidates[fused[t].id].fields["size"])
         /\ HasValue(fused[t].fields["size"])

====
